---- MODULE Spec2Model ----
(***************************************************************************)
(* fpl-proxy: the upstream scheduler (schedule/pump), the TTL cache with   *)
(* its stale read, the retrying fetcher and the /api request pipeline.     *)
(*                                                                         *)
(* Node runs one event loop: a macrotask (an inbound request, a timer, the *)
(* completion of an outbound call) runs to its end, together with the      *)
(* promise continuations it releases, before the next one starts.  A       *)
(* handler that is between two awaits of one such run (pc "loop" or        *)
(* "resume") therefore runs before any other event: see Settled.           *)
(*                                                                         *)
(* The scheduler's delay is counted in ticks of 200 ms (Tick); the cache's *)
(* durations are counted in coarser units (CacheTime).                     *)
(***************************************************************************)
EXTENDS Integers, Sequences, FiniteSets, TLC

\* ---------------------------------------------------------------- bounds
\* schedule() calls made in one run
MaxTasks == 4
\* inbound requests received in one run
MaxReqs == 2
\* fetchUpstream() calls the inbound requests of one run make
MaxFetches == 2
\* keys that arbitrary callers of the cache write in one run
MaxKeys == 1
MaxFetches001 == 3

\* ------------------------------------------------------ program constants
\* Number(process.env.UPSTREAM_CONCURRENCY || 2)
UPSTREAM_CONCURRENCY == 2
\* Number(process.env.UPSTREAM_DELAY_MS || 200), in ticks of 200 ms
UPSTREAM_DELAY_MS == 1
\* fetchUpstream(targetUrl, headers, attempts = 3, sensitive = false)
ATTEMPTS == 3

\* Durations of the cache are counted in units that keep the order of the
\* source's values: 1 min < 2 min < 5 min < 15 min < 12 h < 24 h.
\* TTL.PICKS: 60 * 1000
TTL_PICKS == 1
TTL_ROWS == 1
\* ttlFor's default: 2 * 60 * 1000
TTL_DEFAULT == 2
\* TTL.HISTORY: 5 * 60 * 1000
TTL_HISTORY == 3
\* TTL.BOOTSTRAP: 15 * 60 * 1000
TTL_BOOTSTRAP == 4
\* STALE_HOURS * 3600 * 1000, with STALE_HOURS = 12
STALE_HORIZON == 5
\* TTL.SUMMARY: 24 * 60 * 60 * 1000
TTL_SUMMARY == 6
TTLs == {TTL_PICKS, TTL_DEFAULT, TTL_HISTORY, TTL_BOOTSTRAP, TTL_SUMMARY}
\* ages stop counting once past every duration above
AgeCap == TTL_SUMMARY + 1

TaskIds == 1..MaxTasks
ReqIds == 1..MaxReqs

VARIABLES
  active,       \* let active = 0
  q,            \* const q = []: the queued entries {task, resolve, reject}, by task id
  timers,       \* pending setTimeout(pump, D) calls: remaining ticks -> how many
  nTasks,       \* schedule() calls made so far; ids are given in call order
  tstate,       \* per task: "none", "queued", "running", "done", and "gone" once
                \* its settled promise was consumed and nothing refers to it
  promise,      \* per task: the promise schedule() returned
  \* observers of the scheduler (they do not influence it)
  lastStarted,  \* the task pump() started last (0: none yet)
  lastDisp,     \* taken at the last dispatch: what the dispatch before it was doing
  sinceEnd,     \* ticks since the task started last completed, up to D; -1 while it runs
  execCount,    \* per task: calls of next.task()
  settleCount,  \* per task: calls of next.resolve / next.reject
  outcome,      \* per task: what the task function itself returned or threw
  \* the cache
  cache,        \* const cache = new LRUCache(...): per key, the entry {ts, data} and its ttl
  lastPut,      \* observer: per key, the last setCache() and the time since it
  \* the fetcher and the request handlers
  fetch,        \* per task: the locals of fetchUpstream's closure (url, sensitive, i, last)
  req           \* per inbound request: the locals of its handler and its response

schedVars == <<active, q, timers, nTasks, tstate, promise>>
obsVars   == <<lastStarted, lastDisp, sinceEnd, execCount, settleCount, outcome>>
cacheVars == <<cache, lastPut>>
pipeVars  == <<fetch, req>>
vars      == <<schedVars, obsVars, cacheVars, pipeVars>>

\* ---------------------------------------------------------------- values
\* The statuses upstream answers with, and the bodies: a body is known by
\* the status of the response that carried it and by whether it is a JSON
\* document (truthy in JavaScript) or empty ("" is falsy).
Statuses == {200, 404, 403, 429, 500}
Forms == {"json", "empty"}
Bodies == [st : Statuses, form : Forms]
\* the answers of upstream that are enumerated: a JSON document with every
\* status, and an empty body with 200
Answers == {b \in Bodies : b.form = "json" \/ b.st = 200}
\* null
NoBody == [st |-> 0, form |-> "null"]
\* if (fresh), if (stale): JavaScript's truthiness of a body
Truthy(b) == b.form = "json"

\* What a task returns or throws: `of` is the task that produced it.  An
\* axios response has a status and data; an axios error has no status.
Response(t, s, form) == [of |-> t, status |-> s, data |-> [st |-> s, form |-> form]]
AxiosError(t) == [of |-> t, status |-> 0, data |-> NoBody]
\* let last; (undefined), and the value of a promise that is not settled
NoValue == [of |-> 0, status |-> -1, data |-> NoBody]
\* the value a task of an arbitrary caller returns or throws: its own
TaskValue(t) == [of |-> t, status |-> -1, data |-> NoBody]

Pending == [state |-> "pending", val |-> NoValue]
NoOutcome == [kind |-> "none", val |-> NoValue]
NoDisp == [hasPrev |-> FALSE, prevEnded |-> FALSE, gap |-> 0]

\* ----------------------------------------------------------------- paths
\* A path (pathWithQuery, and the outbound URL made of it under API_BASE)
\* is the sequence of the tokens of its string, in lower case.
Ids == {1, 2}
Digits == {ToString(i) : i \in Ids}
\* `entry/${id}/`
EntryPath(id)   == <<"entry", "/", ToString(id), "/">>
\* `entry/${id}/history/`
HistoryPath(id) == <<"entry", "/", ToString(id), "/", "history", "/">>
PicksPath       == <<"entry", "/", "1", "/", "event", "/", "1", "/", "picks", "/">>
\* the paths asked of the generic proxy
ProxyPaths == {EntryPath(1), HistoryPath(1), PicksPath}
Urls == {EntryPath(i) : i \in Ids} \cup {HistoryPath(i) : i \in Ids} \cup ProxyPaths

\* ids.slice().sort((a,b)=>a-b)
RECURSIVE SortIds(_)
SortIds(ids) ==
  IF ids = <<>> THEN <<>>
  ELSE LET m == CHOOSE i \in 1..Len(ids) : \A j \in 1..Len(ids) : ids[i] <= ids[j]
       IN <<ids[m]>> \o SortIds(SubSeq(ids, 1, m - 1) \o SubSeq(ids, m + 1, Len(ids)))
\* `rows:${gw}:${ids.slice().sort((a,b)=>a-b).join(',')}`
RowsKey(gw, ids) ==
  <<"rows", ToString(gw)>> \o [i \in 1..Len(ids) |-> ToString(SortIds(ids)[i])]
\* the keys of the rows cache that requests can form
RowsKeys == {RowsKey(1, <<1>>), RowsKey(1, <<1, 2>>)}
\* the keys of the LRU cache: ck(url) for the outbound URLs, and the rows keys
Keys == Urls \cup RowsKeys

\* l.includes(s) for s made of the tokens in w
Includes(p, w) ==
  \E i \in 0..(Len(p) - Len(w)) : \A j \in 1..Len(w) : p[i + j] = w[j]
\* l.endsWith(s)
EndsWith(p, w) ==
  Len(p) >= Len(w) /\ \A j \in 1..Len(w) : p[Len(p) - Len(w) + j] = w[j]
\* /\/entry\/\d+\/$/.test(l)
EndsWithSlashEntryId(p) ==
  \E d \in Digits : EndsWith(p, <<"/", "entry", "/", d, "/">>)

\* function ttlFor(path)
TtlFor(p) ==
  IF Includes(p, <<"bootstrap-static">>) THEN TTL_BOOTSTRAP
  ELSE IF Includes(p, <<"/", "history">>) THEN TTL_HISTORY
  ELSE IF Includes(p, <<"/", "picks">>) THEN TTL_PICKS
  ELSE IF EndsWith(p, <<"/", "entry", "/">>) \/ EndsWithSlashEntryId(p) THEN TTL_SUMMARY
  ELSE TTL_DEFAULT

\* function isSensitivePath(p): /\/picks\/|\/event\/\d+\/picks|live|^event/
IsSensitivePath(p) ==
  \/ Includes(p, <<"/", "picks", "/">>)
  \/ \E d \in Digits : Includes(p, <<"/", "event", "/", d, "/", "picks">>)
  \/ Includes(p, <<"live">>)
  \/ (Len(p) >= 1 /\ p[1] = "event")

\* ----------------------------------------------------------------- cache
NoEntry == [data |-> NoBody, age |-> -1, ttl |-> 0]

\* lru-cache, built with { max: 500, ttlAutopurge: true } and without
\* allowStale: an entry is stale once now - start > ttl ...
LruIsStale(e) == e.age > e.ttl
\* ... and cache.get(key) returns undefined for a missing or stale entry
LruHas(c, k) == c[k] # NoEntry /\ ~LruIsStale(c[k])
\* cache.get(key) deletes the stale entry it finds
LruAfterGet(c, k) == IF c[k] # NoEntry /\ LruIsStale(c[k]) THEN [c EXCEPT ![k] = NoEntry] ELSE c

\* function setCache(url, data, ttl) { cache.set(ck(url), { ts: now(), data }, { ttl }); }
SetCache(c, url, data, ttl) == [c EXCEPT ![url] = [data |-> data, age |-> 0, ttl |-> ttl]]

\* function getFresh(url) { const v = cache.get(ck(url)); return v ? v.data : null; }
GetFresh(c, url) == IF LruHas(c, url) THEN c[url].data ELSE NoBody

\* function getStale(url): v = cache.get(ck(url)); if (!v) return null;
\* if (now() - v.ts <= STALE_HOURS * 3600 * 1000) return v.data; return null;
GetStale(c, url) ==
  IF ~LruHas(c, url) THEN NoBody
  ELSE IF c[url].age <= STALE_HORIZON THEN c[url].data ELSE NoBody

\* one unit of cache time passes for every entry
Aged(c) == [k \in DOMAIN c |->
              IF c[k] # NoEntry /\ c[k].age < AgeCap
              THEN [c[k] EXCEPT !.age = @ + 1] ELSE c[k]]
\* ttlAutopurge: the timer lru-cache sets for an entry deletes it once stale
Purged(c) == [k \in DOMAIN c |->
                IF c[k] # NoEntry /\ LruIsStale(c[k]) THEN NoEntry ELSE c[k]]

\* ------------------------------------------------------------- scheduler

\* no handler is in the middle of its run: the event loop takes the next event
Settled ==
  \A r \in ReqIds : req[r].pc \notin {"loop", "fanout", "collect", "resume", "done"}
\* no request is being handled
Quiet == \A r \in ReqIds : req[r].pc \in {"none", "closed"}

\* pump(): if (active >= UPSTREAM_CONCURRENCY) return;
PumpBlockedOffByOne(a) == a > UPSTREAM_CONCURRENCY
PumpBlocked(a) == a >= UPSTREAM_CONCURRENCY

\* q.shift(): the position of the entry pump() takes out of the queue
ShiftLast(qq) == Len(qq)
ShiftIndex(qq) == 1

RemoveAt(qq, i) == SubSeq(qq, 1, i - 1) \o SubSeq(qq, i + 1, Len(qq))

\* next.resolve(res) in the try block, next.reject(e) in the catch block
SettleAlwaysResolve(kind, val) == [state |-> "resolved", val |-> val]
PumpSettle(kind, val) ==
  [state |-> IF kind = "return" THEN "resolved" ELSE "rejected", val |-> val]

\* finally { ...; setTimeout(pump, UPSTREAM_DELAY_MS) }
ArmNothing(tm) == tm
ArmPumpTimer(tm) == [tm EXCEPT ![UPSTREAM_DELAY_MS] = @ + 1]

TimersPending == \E k \in DOMAIN timers : timers[k] > 0

\* The synchronous part of pump(), run on queue qq with task states ts:
\* the two early returns, q.shift(), active++ and the call next.task().
Pump(qq, ts) ==
  IF PumpBlocked(active) \/ qq = <<>>
  THEN /\ q' = qq
       /\ tstate' = ts
       /\ UNCHANGED <<active, lastStarted, lastDisp, execCount, sinceEnd>>
  ELSE LET i    == ShiftIndex(qq)
           next == qq[i]
           prev == lastStarted
       IN /\ q' = RemoveAt(qq, i)
          /\ active' = active + 1
          /\ tstate' = [ts EXCEPT ![next] = "running"]
          /\ execCount' = [execCount EXCEPT ![next] = @ + 1]
          /\ lastStarted' = next
          /\ lastDisp' = IF prev = 0 THEN NoDisp
                         ELSE [hasPrev   |-> TRUE,
                               prevEnded |-> ts[prev] # "running",
                               gap       |-> IF ts[prev] # "running" THEN sinceEnd ELSE 0]
          /\ sinceEnd' = -1

\* schedule(task) for the task given id t: q.push({task, resolve, reject}); pump();
ScheduleTask(t) ==
  /\ nTasks' = t
  /\ Pump(Append(q, t), [tstate EXCEPT ![t] = "queued"])

\* The rest of pump() once `await next.task()` settles: resolve or reject
\* the caller's promise, then finally { active--; setTimeout(pump, D) }.
Complete(t, kind, val) ==
  /\ tstate[t] = "running"
  /\ tstate' = [tstate EXCEPT ![t] = "done"]
  /\ outcome' = [outcome EXCEPT ![t] = [kind |-> kind, val |-> val]]
  /\ promise' = [promise EXCEPT ![t] = PumpSettle(kind, val)]
  /\ settleCount' = [settleCount EXCEPT ![t] = @ + 1]
  /\ active' = active - 1
  /\ timers' = ArmPumpTimer(timers)
  /\ sinceEnd' = IF lastStarted = t THEN 0 ELSE sinceEnd
  /\ UNCHANGED <<q, nTasks, lastStarted, lastDisp, execCount>>

\* an arbitrary caller schedules a task
Schedule ==
  /\ nTasks < MaxTasks
  /\ ScheduleTask(nTasks + 1)
  /\ UNCHANGED <<timers, promise, settleCount, outcome>>
  /\ UNCHANGED <<cacheVars, pipeVars>>

\* task t of an arbitrary caller ends: its function returns (kind "return")
\* or throws its value
TaskEnds(t, kind) ==
  /\ Complete(t, kind, TaskValue(t))
  /\ UNCHANGED <<cacheVars, pipeVars>>

\* a task whose function returns
TaskReturns == \E t \in TaskIds : TaskEnds(t, "return")

\* a pump() whose catch path skips the finally block
TaskThrowsNoFinally ==
  /\ \E t \in TaskIds :
       /\ tstate[t] = "running"
       /\ tstate' = [tstate EXCEPT ![t] = "done"]
       /\ outcome' = [outcome EXCEPT ![t] = [kind |-> "throw", val |-> TaskValue(t)]]
       /\ promise' = [promise EXCEPT ![t] = [state |-> "rejected", val |-> TaskValue(t)]]
       /\ settleCount' = [settleCount EXCEPT ![t] = @ + 1]
  /\ UNCHANGED <<active, q, timers, nTasks, lastStarted, lastDisp, sinceEnd, execCount>>
  /\ UNCHANGED <<cacheVars, pipeVars>>
\* a task whose function throws
TaskThrows == \E t \in TaskIds : TaskEnds(t, "throw")

\* a setTimeout(pump, D) whose delay has passed calls pump()
PumpTimer ==
  /\ Settled
  /\ timers[0] > 0
  /\ timers' = [timers EXCEPT ![0] = @ - 1]
  /\ Pump(q, tstate)
  /\ UNCHANGED <<nTasks, promise, settleCount, outcome>>
  /\ UNCHANGED <<cacheVars, pipeVars>>

\* 200 ms pass
Tick ==
  /\ Settled
  /\ timers' = [k \in 0..UPSTREAM_DELAY_MS |->
                  IF k = 0 THEN timers[0] + timers[1]
                  ELSE IF k = UPSTREAM_DELAY_MS THEN 0 ELSE timers[k + 1]]
  /\ sinceEnd' = IF sinceEnd >= 0 /\ sinceEnd < UPSTREAM_DELAY_MS
                  THEN sinceEnd + 1 ELSE sinceEnd
  /\ UNCHANGED <<active, q, nTasks, tstate, promise,
                 lastStarted, lastDisp, execCount, settleCount, outcome>>
  /\ UNCHANGED <<cacheVars, pipeVars>>

\* ----------------------------------------------------------- cache users

\* a caller stores a body
CachePut ==
  /\ \E u \in Urls, d \in Answers, ttl \in TTLs :
       /\ Cardinality({k \in Urls : lastPut[k] # NoEntry} \cup {u}) <= MaxKeys
       /\ cache' = SetCache(cache, u, d, ttl)
       /\ lastPut' = SetCache(lastPut, u, d, ttl)
  /\ UNCHANGED <<schedVars, obsVars, pipeVars>>

\* a caller reads with getFresh or getStale: both go through cache.get
CacheRead ==
  /\ \E u \in Urls : cache' = LruAfterGet(cache, u)
  /\ UNCHANGED <<schedVars, obsVars, pipeVars, lastPut>>

\* One unit of cache time (a minute) passes, and the purge timers of the
\* entries that became stale fire.  The unit is longer than every delay of
\* the scheduler, so every pending pump timer is due after it, and longer
\* than a fetch takes (three calls of at most 15 s and their waits), so
\* it passes between requests.
CacheTime ==
  /\ Quiet
  /\ cache' = Purged(Aged(cache))
  /\ lastPut' = Aged(lastPut)
  /\ timers' = [k \in 0..UPSTREAM_DELAY_MS |->
                  IF k = 0 THEN timers[0] + timers[UPSTREAM_DELAY_MS] ELSE 0]
  /\ sinceEnd' = IF sinceEnd >= 0 THEN UPSTREAM_DELAY_MS ELSE sinceEnd
  /\ UNCHANGED <<active, q, nTasks, tstate, promise,
                 lastStarted, lastDisp, execCount, settleCount, outcome>>
  /\ UNCHANGED pipeVars

\* --------------------------------------------------------------- fetcher
NoFetch == [url |-> <<>>, sensitive |-> FALSE, i |-> 0, last |-> NoValue,
            fpc |-> "none", owner |-> 0,
            \* observers: the axios.get calls that have ended, and what the
            \* most recent one ended with
            calls |-> 0, seen |-> NoValue,
            \* observer: no call has ended with anything but a 403 answer
            only403 |-> TRUE,
            \* the length in ms of the backoff wait the fetch is in or was in
            \* last, and of the one before it (0: none); only the timed loop
            \* of BackoffSpec keeps them
            wait |-> 0, prev |-> 0]

\* a retry policy that repeats every 403
RetryableAny403(s, sensitive) == s = 429 \/ s >= 500 \/ s = 403
\* const retryable = (s === 429) || (s >= 500) || (s === 403 && sensitive);
Retryable(s, sensitive) == s = 429 \/ s >= 500 \/ (s = 403 /\ sensitive)

\* the axios.get of a running fetch is in flight
InFlight(t) == tstate[t] = "running" /\ fetch[t].fpc = "call"
\* a running fetch is in its backoff wait
Sleeping(t) == tstate[t] = "running" /\ fetch[t].fpc = "sleep"

\* upstream answers with a status that is not retried: `return resp`
\* ends the task, and the handler that awaits it resumes
AxiosFinal ==
  /\ Settled
  /\ \E t \in TaskIds, b \in Answers :
       /\ InFlight(t)
       /\ ~Retryable(b.st, fetch[t].sensitive)
       /\ Complete(t, "return", Response(t, b.st, b.form))
       /\ fetch' = [fetch EXCEPT ![t].calls = @ + 1, ![t].seen = Response(t, b.st, b.form),
                                 ![t].only403 = @ /\ b.st = 403,
                                 ![t].fpc = "end"]
       /\ req' = [req EXCEPT ![fetch[t].owner].pc = "resume"]
  /\ UNCHANGED cacheVars

\* upstream answers with a retryable status: last = resp, then the wait
AxiosRetryable ==
  /\ Settled
  /\ \E t \in TaskIds, b \in Answers :
       /\ InFlight(t)
       /\ Retryable(b.st, fetch[t].sensitive)
       /\ fetch' = [fetch EXCEPT ![t].last = Response(t, b.st, b.form), ![t].fpc = "sleep",
                                 ![t].calls = @ + 1, ![t].seen = Response(t, b.st, b.form),
                                 ![t].only403 = @ /\ b.st = 403]
  /\ UNCHANGED <<schedVars, obsVars, cacheVars, req>>

\* a catch block that does not record the error
AxiosThrowsForgets ==
  /\ Settled
  /\ \E t \in TaskIds :
       /\ InFlight(t)
       /\ fetch' = [fetch EXCEPT ![t].fpc = "sleep",
                                 ![t].calls = @ + 1, ![t].seen = AxiosError(t), ![t].only403 = FALSE]
  /\ UNCHANGED <<schedVars, obsVars, cacheVars, req>>
\* the call fails (no response, or the 15 s timeout): last = e, then the wait
AxiosThrows ==
  /\ Settled
  /\ \E t \in TaskIds :
       /\ InFlight(t)
       /\ fetch' = [fetch EXCEPT ![t].last = AxiosError(t), ![t].fpc = "sleep",
                                 ![t].calls = @ + 1, ![t].seen = AxiosError(t), ![t].only403 = FALSE]
  /\ UNCHANGED <<schedVars, obsVars, cacheVars, req>>

\* the wait ends and the loop goes on: i++, i < attempts, the next axios.get
BackoffRetry ==
  /\ Settled
  /\ \E t \in TaskIds :
       /\ Sleeping(t)
       /\ fetch[t].i + 1 < ATTEMPTS
       /\ fetch' = [fetch EXCEPT ![t].i = @ + 1, ![t].fpc = "call"]
  /\ UNCHANGED <<schedVars, obsVars, cacheVars, req>>

\* the wait ends and the loop ends: throw last
BackoffExhausted ==
  /\ Settled
  /\ \E t \in TaskIds :
       /\ Sleeping(t)
       /\ fetch[t].i + 1 >= ATTEMPTS
       /\ Complete(t, "throw", fetch[t].last)
       /\ fetch' = [fetch EXCEPT ![t].fpc = "end"]
       /\ req' = [req EXCEPT ![fetch[t].owner].pc = "resume"]
  /\ UNCHANGED cacheVars

\* -------------------------------------------------------------- handlers
NoResp == [status |-> 0, xcache |-> "none", xstale |-> FALSE, xsoft |-> FALSE,
           xupstream |-> "none", body |-> NoBody, results |-> <<>>]
NoReq == [route |-> "none", method |-> "none", path |-> <<>>, ids |-> <<>>, gw |-> 0,
          k |-> 0,
          pc |-> "none", task |-> 0, left |-> 0, results |-> <<>>, resp |-> NoResp,
          \* observers: the entry the cache held within its ttl when the request
          \* came, the outcome of its fetch, the last write when the fetch failed
          hadFresh |-> FALSE, freshSeen |-> NoBody,
          final |-> NoValue, failed |-> FALSE, lastAtFail |-> NoEntry]

Methods == {"GET", "POST", "OPTIONS"}
\* the `ids` query parameter, split at ","; 0 is a token that parseInt turns
\* into NaN or 0
IdInputs == {<<0>>, <<1>>, <<1, 2>>}
\* a parser that keeps every token
ParseIdsKeepAll(raw) == raw
\* .map(x => parseInt(x, 10)).filter(Boolean)
ParseIds(raw) == SelectSeq(raw, LAMBDA x : x # 0)

\* app.use(cors({ ... })): a request with the method OPTIONS is answered by
\* the middleware (204, no body) and reaches no route
CorsPreflight == [NoResp EXCEPT !.status = 204]
\* a handler that lets every method pass
MethodAccepted == [NoResp EXCEPT !.status = 200]
\* res.status(405).json({ error: "Method not allowed" })
MethodNotAllowed == [NoResp EXCEPT !.status = 405, !.body = [st |-> 0, form |-> "error"]]
\* res.status(400).json({ error: "ids required" })
IdsRequired == [NoResp EXCEPT !.status = 400, !.body = [st |-> 0, form |-> "error"]]
\* res.set("X-Proxy-Cache", "HIT"); return res.status(200).json(fresh);
HitResponse(fresh) == [NoResp EXCEPT !.status = 200, !.xcache = "HIT", !.body = fresh]
\* a MISS response that leaves the payload out
MissResponseNoBody(data) == [NoResp EXCEPT !.status = 200, !.xcache = "MISS"]
\* res.set("X-Proxy-Cache", "MISS"); return res.status(200).json(upstream.data);
MissResponse(data) == [NoResp EXCEPT !.status = 200, !.xcache = "MISS", !.body = data]
\* a stale answer that always reports a transport failure
StaleResponseErrOnly(stale, up) ==
  [NoResp EXCEPT !.status = 200, !.xstale = TRUE, !.body = stale, !.xupstream = "ERR"]
\* res.set("X-Proxy-Stale", "1"); res.set("X-Proxy-Upstream-Status", ...);
\* return res.status(200).json(stale);
StaleResponse(stale, up) ==
  [NoResp EXCEPT !.status = 200, !.xstale = TRUE, !.body = stale,
                 !.xupstream = IF up.status = 0 THEN "ERR" ELSE ToString(up.status)]
\* without a stale body: `throw upstream` into the catch block (502) when
\* upstream has no status, res.status(upstream.status).send(upstream.data)
\* when it has one
ErrorResponseSilent(up) ==
  IF up.status = 0
  THEN [NoResp EXCEPT !.status = 200]
  ELSE [NoResp EXCEPT !.status = up.status, !.body = up.data]
ErrorResponse(up) ==
  IF up.status = 0
  THEN [NoResp EXCEPT !.status = 502, !.body = [st |-> 0, form |-> "error"]]
  ELSE [NoResp EXCEPT !.status = up.status, !.body = up.data]

\* The handler of a request that was answered has returned: its locals and
\* the response object are dropped.
Closed == [NoReq EXCEPT !.route = "closed", !.pc = "closed"]
Close ==
  /\ \E r \in ReqIds :
       /\ req[r].pc = "done"
       /\ req' = [req EXCEPT ![r] = Closed]
  /\ UNCHANGED <<schedVars, obsVars, cacheVars, fetch>>

\* `await` has handed the settled value of task t to the handler: nothing
\* refers to the task, its closure and its promise any more
Consumed(t) ==
  /\ tstate' = [tstate EXCEPT ![t] = "gone"]
  /\ promise' = [promise EXCEPT ![t] = Pending]
  /\ outcome' = [outcome EXCEPT ![t] = NoOutcome]
  /\ fetch' = [fetch EXCEPT ![t] = NoFetch]
  /\ UNCHANGED <<active, q, timers, nTasks,
                 lastStarted, lastDisp, sinceEnd, execCount, settleCount>>

NumReqs == Cardinality({r \in ReqIds : req[r].route # "none"})
RECURSIVE SumLeft(_)
SumLeft(n) == IF n = 0 THEN 0 ELSE req[n].left + SumLeft(n - 1)
\* fetchUpstream() calls made so far, and those the requests being handled
\* may still make (`left`: one for the generic proxy, one per id for an
\* aggregate)
Reserved == nTasks + SumLeft(MaxReqs)

\* `await fetchUpstream(url, headers, 3, sensitive)` in the handler of r,
\* whose locals are rq: the closure is scheduled and the handler waits
StartFetch(r, rq, url, sensitive) ==
  LET t == nTasks + 1
  IN /\ fetch' = [fetch EXCEPT ![t] = [url |-> url, sensitive |-> sensitive, i |-> 0,
                                       last |-> NoValue, fpc |-> "call", owner |-> r,
                                       calls |-> 0, seen |-> NoValue, only403 |-> TRUE,
                                       wait |-> 0, prev |-> 0]]
     /\ ScheduleTask(t)
     /\ req' = [req EXCEPT ![r] = [rq EXCEPT !.pc = "await", !.task = t, !.left = @ - 1]]
     /\ UNCHANGED <<timers, promise, settleCount, outcome>>

\* app.use("/api", ...): a request reaches the generic proxy and its handler
\* runs to its first await or to its response
ProxyArrives ==
  /\ Settled
  /\ NumReqs < MaxReqs
  /\ Reserved + 1 <= MaxFetches
  /\ \E method \in Methods, path \in ProxyPaths :
       LET r  == NumReqs + 1
           rq == [NoReq EXCEPT !.route = "proxy", !.method = method, !.path = path,
                               !.left = 1]
       IN IF method = "OPTIONS"
          THEN /\ req' = [req EXCEPT ![r] = [rq EXCEPT !.pc = "done", !.left = 0,
                                                        !.resp = CorsPreflight]]
               /\ UNCHANGED <<schedVars, obsVars, cacheVars, fetch>>
          ELSE IF method \notin {"GET", "HEAD"}
          THEN /\ req' = [req EXCEPT ![r] = [rq EXCEPT !.pc = "done", !.left = 0,
                                                        !.resp = MethodNotAllowed]]
               /\ UNCHANGED <<schedVars, obsVars, cacheVars, fetch>>
          ELSE LET fresh == GetFresh(cache, path)
                   seen  == [rq EXCEPT !.hadFresh = LruHas(cache, path),
                                       !.freshSeen = IF LruHas(cache, path)
                                                     THEN cache[path].data ELSE NoBody]
               IN /\ cache' = LruAfterGet(cache, path)
                  /\ lastPut' = lastPut
                  /\ IF Truthy(fresh)
                     THEN /\ req' = [req EXCEPT ![r] =
                                       [seen EXCEPT !.pc = "done", !.left = 0,
                                                    !.resp = HitResponse(fresh)]]
                          /\ UNCHANGED <<schedVars, obsVars, fetch>>
                     ELSE StartFetch(r, seen, path, IsSensitivePath(path))

\* the generic proxy's handler after `await fetchUpstream(...)`
ProxyResume ==
  /\ \E r \in ReqIds :
       /\ req[r].pc = "resume"
       /\ req[r].route = "proxy"
       /\ LET rq     == req[r]
              url    == rq.path
              up     == promise[rq.task].val
              failed == up.status = 0 \/ up.status < 200 \/ up.status >= 300
              stale  == GetStale(cache, url)
              obs    == [rq EXCEPT !.final = up, !.failed = failed,
                                   !.lastAtFail = IF failed THEN lastPut[url] ELSE NoEntry]
          IN /\ Consumed(rq.task)
             /\ IF failed
                THEN /\ cache' = LruAfterGet(cache, url)
                     /\ lastPut' = lastPut
                     /\ req' = [req EXCEPT ![r] =
                                  [obs EXCEPT !.pc = "done",
                                              !.resp = IF Truthy(stale)
                                                       THEN StaleResponse(stale, up)
                                                       ELSE ErrorResponse(up)]]
                ELSE /\ cache' = SetCache(cache, url, up.data, TtlFor(rq.path))
                     /\ lastPut' = SetCache(lastPut, url, up.data, TtlFor(rq.path))
                     /\ req' = [req EXCEPT ![r] =
                                  [obs EXCEPT !.pc = "done", !.resp = MissResponse(up.data)]]

\* one entry of `results`
Result(id, ok, stale, data, status) ==
  [id |-> id, ok |-> ok, stale |-> stale, data |-> data, status |-> status]

\* the outbound URL of the id an aggregate handler is at
AggUrl(rq) ==
  IF rq.route = "summary" THEN EntryPath(rq.ids[rq.k]) ELSE HistoryPath(rq.ids[rq.k])

\* app.get("/api/aggregate/summary"), app.get("/api/aggregate/history"):
\* the ids are parsed; none left is answered 400
AggArrives ==
  /\ Settled
  /\ NumReqs < MaxReqs
  /\ \E route \in {"summary", "history"}, raw \in IdInputs :
       LET r   == NumReqs + 1
           ids == ParseIds(raw)
           rq  == [NoReq EXCEPT !.route = route, !.method = "GET", !.ids = ids,
                               !.left = Len(ids)]
       IN /\ Reserved + Len(ids) <= MaxFetches
          /\ req' = [req EXCEPT ![r] =
                       IF ids = <<>>
                       THEN [rq EXCEPT !.pc = "done", !.resp = IdsRequired]
                       ELSE [rq EXCEPT !.pc = "loop", !.k = 1]]
  /\ UNCHANGED <<schedVars, obsVars, cacheVars, fetch>>

\* `for (const id of ids)`: the loop head of an aggregate handler: after
\* the last id res.json({ results }); a fresh body is pushed without a
\* fetch; otherwise the fetch is awaited
AggIter ==
  /\ \E r \in ReqIds :
       /\ req[r].pc = "loop"
       /\ LET rq == req[r]
          IN IF rq.k > Len(rq.ids)
             THEN /\ req' = [req EXCEPT ![r] =
                               [rq EXCEPT !.pc = "done",
                                          !.resp = [NoResp EXCEPT !.status = 200,
                                                                  !.results = rq.results]]]
                  /\ UNCHANGED <<schedVars, obsVars, cacheVars, fetch>>
             ELSE LET url   == AggUrl(rq)
                      fresh == GetFresh(cache, url)
                  IN /\ cache' = LruAfterGet(cache, url)
                     /\ lastPut' = lastPut
                     /\ IF Truthy(fresh)
                        THEN /\ req' = [req EXCEPT ![r] =
                                          [rq EXCEPT !.k = @ + 1, !.left = @ - 1,
                                                     !.results = Append(@,
                                                        Result(rq.ids[rq.k], TRUE, FALSE, fresh, "none"))]]
                             /\ UNCHANGED <<schedVars, obsVars, fetch>>
                        ELSE StartFetch(r, rq, url, FALSE)

\* /api/aggregate/summary after `await fetchUpstream(url, headers, 3, false)`
SummaryResume ==
  /\ \E r \in ReqIds :
       /\ req[r].pc = "resume"
       /\ req[r].route = "summary"
       /\ LET rq    == req[r]
              url   == AggUrl(rq)
              id    == rq.ids[rq.k]
              p     == promise[rq.task]
              up    == p.val
              ok2xx == p.state = "resolved" /\ up.status >= 200 /\ up.status < 300
              stale == GetStale(cache, url)
              st    == IF p.state = "resolved" THEN ToString(up.status) ELSE "ERR"
              entry == IF ok2xx THEN Result(id, TRUE, FALSE, up.data, "none")
                       ELSE IF Truthy(stale) THEN Result(id, TRUE, TRUE, stale, st)
                       ELSE Result(id, FALSE, FALSE, NoBody, st)
          IN /\ Consumed(rq.task)
             /\ IF ok2xx
                THEN /\ cache' = SetCache(cache, url, up.data, TTL_SUMMARY)
                     /\ lastPut' = SetCache(lastPut, url, up.data, TTL_SUMMARY)
                ELSE /\ cache' = LruAfterGet(cache, url)
                     /\ lastPut' = lastPut
             /\ req' = [req EXCEPT ![r] =
                          [rq EXCEPT !.pc = "loop", !.k = @ + 1,
                                     !.results = Append(@, entry)]]

\* /api/aggregate/history after `(await fetchUpstream(url, headers, 3, false)).data`:
\* a response that was returned is stored whatever its status
HistoryResume ==
  /\ \E r \in ReqIds :
       /\ req[r].pc = "resume"
       /\ req[r].route = "history"
       /\ LET rq    == req[r]
              url   == AggUrl(rq)
              id    == rq.ids[rq.k]
              p     == promise[rq.task]
              stale == GetStale(cache, url)
              entry == IF p.state = "resolved" THEN Result(id, TRUE, FALSE, p.val.data, "none")
                       ELSE IF Truthy(stale) THEN Result(id, TRUE, TRUE, stale, "none")
                       ELSE Result(id, FALSE, FALSE, NoBody, "none")
          IN /\ Consumed(rq.task)
             /\ IF p.state = "resolved"
                THEN /\ cache' = SetCache(cache, url, p.val.data, TTL_HISTORY)
                     /\ lastPut' = SetCache(lastPut, url, p.val.data, TTL_HISTORY)
                ELSE /\ cache' = LruAfterGet(cache, url)
                     /\ lastPut' = lastPut
             /\ req' = [req EXCEPT ![r] =
                          [rq EXCEPT !.pc = "loop", !.k = @ + 1,
                                     !.results = Append(@, entry)]]

\* ------------------------------------------- the later server (part_001)
\* Its scheduler, cache, ttlFor, isSensitivePath and aggregate handlers are
\* those above; its fetcher tries two header sets per attempt, its generic
\* proxy answers some 403s with a placeholder document, and it has the
\* /api/aggregate/rows endpoint.

\* the axios.get of a running header-variant fetch is in flight
InFlight001(t) == tstate[t] = "running" /\ fetch[t].fpc \in {"pass1", "pass2"}
\* a running header-variant fetch is in its backoff wait
Sleeping001(t) == tstate[t] = "running" /\ fetch[t].fpc = "sleep001"
\* for (const h of [pass1, pass2]): after the call with pass1 the call with
\* pass2, after that the wait
AfterPass(fpc) == IF fpc = "pass1" THEN "pass2" ELSE "sleep001"

\* what the end of a fetch means to the handler that started it: the generic
\* proxy resumes after its await; the rows handler's .then / .catch callback
\* of that fetch runs
Wake(r) == IF req[r].route = "rows" THEN "collect" ELSE "resume"

\* `if (!retryable) return resp;`
AxiosFinal001 ==
  /\ Settled
  /\ \E t \in TaskIds, b \in Answers :
       /\ InFlight001(t)
       /\ ~Retryable(b.st, fetch[t].sensitive)
       /\ Complete(t, "return", Response(t, b.st, b.form))
       /\ fetch' = [fetch EXCEPT ![t].calls = @ + 1, ![t].seen = Response(t, b.st, b.form),
                                 ![t].only403 = @ /\ b.st = 403,
                                 ![t].fpc = "end"]
       /\ req' = [req EXCEPT ![fetch[t].owner].pc = Wake(fetch[t].owner)]
  /\ UNCHANGED cacheVars

\* `last = resp;` and on to the next header set or to the wait
AxiosRetryable001 ==
  /\ Settled
  /\ \E t \in TaskIds, b \in Answers :
       /\ InFlight001(t)
       /\ Retryable(b.st, fetch[t].sensitive)
       /\ fetch' = [fetch EXCEPT ![t].last = Response(t, b.st, b.form),
                                 ![t].fpc = AfterPass(@),
                                 ![t].calls = @ + 1, ![t].seen = Response(t, b.st, b.form),
                                 ![t].only403 = @ /\ b.st = 403]
  /\ UNCHANGED <<schedVars, obsVars, cacheVars, req>>

\* `catch(e){ last = e; }` and on to the next header set or to the wait
AxiosThrows001 ==
  /\ Settled
  /\ \E t \in TaskIds :
       /\ InFlight001(t)
       /\ fetch' = [fetch EXCEPT ![t].last = AxiosError(t), ![t].fpc = AfterPass(@),
                                 ![t].calls = @ + 1, ![t].seen = AxiosError(t), ![t].only403 = FALSE]
  /\ UNCHANGED <<schedVars, obsVars, cacheVars, req>>

\* the wait ends: i++, i < attempts, the call with pass1
BackoffRetry001 ==
  /\ Settled
  /\ \E t \in TaskIds :
       /\ Sleeping001(t)
       /\ fetch[t].i + 1 < ATTEMPTS
       /\ fetch' = [fetch EXCEPT ![t].i = @ + 1, ![t].fpc = "pass1"]
  /\ UNCHANGED <<schedVars, obsVars, cacheVars, req>>

\* the wait ends and the loop ends: throw last
BackoffExhausted001 ==
  /\ Settled
  /\ \E t \in TaskIds :
       /\ Sleeping001(t)
       /\ fetch[t].i + 1 >= ATTEMPTS
       /\ Complete(t, "throw", fetch[t].last)
       /\ fetch' = [fetch EXCEPT ![t].fpc = "end"]
       /\ req' = [req EXCEPT ![fetch[t].owner].pc = Wake(fetch[t].owner)]
  /\ UNCHANGED cacheVars

\* `await fetchUpstream(targetUrl, headers, 3, sensitive)` of the later server
StartFetch001(r, rq, url, sensitive) ==
  LET t == nTasks + 1
  IN /\ fetch' = [fetch EXCEPT ![t] = [url |-> url, sensitive |-> sensitive, i |-> 0,
                                       last |-> NoValue, fpc |-> "pass1", owner |-> r,
                                       calls |-> 0, seen |-> NoValue, only403 |-> TRUE,
                                       wait |-> 0, prev |-> 0]]
     /\ ScheduleTask(t)
     /\ req' = [req EXCEPT ![r] = [rq EXCEPT !.pc = "await", !.task = t, !.left = @ - 1]]
     /\ UNCHANGED <<timers, promise, settleCount, outcome>>

\* /^entry\/\d+\/?$/.test(l)
IsEntryId(p) ==
  \E d \in Digits : p = <<"entry", "/", d>> \/ p = <<"entry", "/", d, "/">>
\* const softable = upstream.status===403 && ( ... )
Softable(p, status) ==
  /\ status = 403
  /\ \/ Includes(p, <<"bootstrap-static">>)
     \/ Includes(p, <<"/", "history", "/">>)
     \/ Includes(p, <<"/", "picks", "/">>)
     \/ Includes(p, <<"leagues-classic">>)
     \/ IsEntryId(p)
\* res.set("X-Proxy-Soft","1"); res.set("X-Proxy-Upstream-Status","403");
\* return res.status(200).json({ ...an empty document of the path's kind... })
SoftResponse ==
  [NoResp EXCEPT !.status = 200, !.xsoft = TRUE, !.xupstream = "403",
                 !.body = [st |-> 0, form |-> "placeholder"]]

\* app.use("/api", ...) of the later server: a request reaches the generic
\* proxy and its handler runs to its first await or to its response, for
\* the methods and paths given
ProxyArrives001From(methods, paths) ==
  /\ Settled
  /\ NumReqs < MaxReqs
  /\ Reserved + 1 <= MaxFetches001
  /\ \E method \in methods, path \in paths :
       LET r  == NumReqs + 1
           rq == [NoReq EXCEPT !.route = "proxy001", !.method = method, !.path = path,
                               !.left = 1]
       IN IF method = "OPTIONS"
          THEN /\ req' = [req EXCEPT ![r] = [rq EXCEPT !.pc = "done", !.left = 0,
                                                        !.resp = CorsPreflight]]
               /\ UNCHANGED <<schedVars, obsVars, cacheVars, fetch>>
          ELSE IF method \notin {"GET", "HEAD", "OPTIONS"}
          THEN /\ req' = [req EXCEPT ![r] = [rq EXCEPT !.pc = "done", !.left = 0,
                                                        !.resp = MethodNotAllowed]]
               /\ UNCHANGED <<schedVars, obsVars, cacheVars, fetch>>
          ELSE LET fresh == GetFresh(cache, path)
                   seen  == [rq EXCEPT !.hadFresh = LruHas(cache, path),
                                       !.freshSeen = IF LruHas(cache, path)
                                                     THEN cache[path].data ELSE NoBody]
               IN /\ cache' = LruAfterGet(cache, path)
                  /\ lastPut' = lastPut
                  /\ IF Truthy(fresh)
                     THEN /\ req' = [req EXCEPT ![r] =
                                       [seen EXCEPT !.pc = "done", !.left = 0,
                                                    !.resp = HitResponse(fresh)]]
                          /\ UNCHANGED <<schedVars, obsVars, fetch>>
                     ELSE StartFetch001(r, seen, path, IsSensitivePath(path))

ProxyArrives001 == ProxyArrives001From(Methods, ProxyPaths)

\* the later server's generic proxy after `await fetchUpstream(...)`
ProxyResume001 ==
  /\ \E r \in ReqIds :
       /\ req[r].pc = "resume"
       /\ req[r].route = "proxy001"
       /\ LET rq     == req[r]
              url    == rq.path
              up     == promise[rq.task].val
              failed == up.status = 0 \/ up.status < 200 \/ up.status >= 300
              stale  == GetStale(cache, url)
              obs    == [rq EXCEPT !.final = up, !.failed = failed,
                                   !.lastAtFail = IF failed THEN lastPut[url] ELSE NoEntry]
          IN /\ Consumed(rq.task)
             /\ IF failed
                THEN /\ cache' = LruAfterGet(cache, url)
                     /\ lastPut' = lastPut
                     /\ req' = [req EXCEPT ![r] =
                                  [obs EXCEPT !.pc = "done",
                                              !.resp = IF Truthy(stale)
                                                       THEN StaleResponse(stale, up)
                                                       ELSE IF Softable(rq.path, up.status)
                                                       THEN SoftResponse
                                                       ELSE ErrorResponse(up)]]
                ELSE /\ cache' = SetCache(cache, url, up.data, TtlFor(rq.path))
                     /\ lastPut' = SetCache(lastPut, url, up.data, TtlFor(rq.path))
                     /\ req' = [req EXCEPT ![r] =
                                  [obs EXCEPT !.pc = "done", !.resp = MissResponse(up.data)]]

\* the `gw` query parameter after parseInt: 0 stands for an absent or
\* non-numeric value (NaN) and for 0
GwInputs == {0, 1}
\* res.status(400).json({ error: "gw and ids required" })
GwAndIdsRequired == [NoResp EXCEPT !.status = 400, !.body = [st |-> 0, form |-> "error"]]
\* the outbound URL of the k-th fetch of a rows request: the summary URLs
\* of the ids, then their history URLs
RowsUrl(ids, k) ==
  IF k <= Len(ids) THEN EntryPath(ids[k]) ELSE HistoryPath(ids[k - Len(ids)])
\* const s = summaries[i] || {}; const h = histories[i] || {}; and the
\* fields read from them (s.name, h.current, ...): only a document that
\* upstream sent with 200 has them, any other body gives the defaults
\* ("" and null) that a missing document gives
RowPart(b) == IF Truthy(b) /\ b.st = 200 THEN b ELSE NoBody
\* const rows = ids.map((id, i) => ...): one row per id, from summaries[i]
\* and histories[i]
RowsOf(ids, results) ==
  [i \in 1..Len(ids) |->
     [entryId |-> ids[i], s |-> RowPart(results[i]),
      h |-> RowPart(results[Len(ids) + i])]]

\* app.get("/api/aggregate/rows") up to the first fetchUpstream call, for
\* the `ids` parameters in `inputs`; a request that finds no entry makes 2N
\* fetches, of which the model has maxFetches
RowsArrivesFrom(inputs, maxFetches) ==
  /\ Settled
  /\ NumReqs < MaxReqs
  /\ \E gw \in GwInputs, raw \in inputs :
       LET r   == NumReqs + 1
           ids == ParseIds(raw)
           key == RowsKey(gw, ids)
           rq  == [NoReq EXCEPT !.route = "rows", !.method = "GET", !.ids = ids,
                               !.gw = gw]
       IN IF gw = 0 \/ ids = <<>>
          THEN /\ req' = [req EXCEPT ![r] = [rq EXCEPT !.pc = "done",
                                                        !.resp = GwAndIdsRequired]]
               /\ UNCHANGED cacheVars
          ELSE /\ LruHas(cache, key) \/ Reserved + 2 * Len(ids) <= maxFetches
               /\ cache' = LruAfterGet(cache, key)
               /\ lastPut' = lastPut
               /\ req' = [req EXCEPT ![r] =
                            IF LruHas(cache, key)
                            THEN [rq EXCEPT !.pc = "done", !.hadFresh = TRUE,
                                            !.resp = [NoResp EXCEPT
                                                        !.status = 200, !.xcache = "HIT",
                                                        !.results = cache[key].data.rows]]
                            ELSE [rq EXCEPT !.pc = "fanout", !.k = 1,
                                            !.left = 2 * Len(ids),
                                            !.task = nTasks + 1,
                                            !.results = [i \in 1..(2 * Len(ids)) |-> NoBody]]]
  /\ UNCHANGED <<schedVars, obsVars, fetch>>

RowsArrives == RowsArrivesFrom(IdInputs, MaxFetches001)

\* requests for the rows of two entries, in either order
RowsIdInputs == {<<1, 2>>, <<2, 1>>}
MaxFetchesRows == 4
RowsArrivesTwoIds == RowsArrivesFrom(RowsIdInputs, MaxFetchesRows)

\* summaryUrls.map(u => fetchUpstream(u, headers, 3, false)...), then the
\* same for historyUrls: the next of the 2N fetches is scheduled; after the
\* last one the handler awaits Promise.all
RowsFanOut ==
  /\ \E r \in ReqIds :
       /\ req[r].pc = "fanout"
       /\ LET rq == req[r]
              t  == nTasks + 1
          IN /\ fetch' = [fetch EXCEPT ![t] =
                            [url |-> RowsUrl(rq.ids, rq.k), sensitive |-> FALSE, i |-> 0,
                             last |-> NoValue, fpc |-> "pass1", owner |-> r,
                             calls |-> 0, seen |-> NoValue, only403 |-> TRUE,
                                       wait |-> 0, prev |-> 0]]
             /\ ScheduleTask(t)
             /\ req' = [req EXCEPT ![r] =
                          [rq EXCEPT !.k = @ + 1, !.left = @ - 1,
                                     !.pc = IF rq.k = 2 * Len(rq.ids)
                                            THEN "await" ELSE "fanout"]]
  /\ UNCHANGED <<timers, promise, settleCount, outcome, cacheVars>>

\* .then(r => r.data).catch(() => null) of a fetch that has ended: its data,
\* or null, takes its place in summaries / histories (kept as the part of it
\* that the rows are built from); after the last of the 2N the handler
\* resumes
RowsCollect ==
  /\ \E r \in ReqIds, t \in TaskIds :
       /\ req[r].pc = "collect"
       /\ fetch[t].owner = r
       /\ tstate[t] = "done"
       /\ LET rq   == req[r]
              slot == t - rq.task + 1
              data == IF promise[t].state = "resolved"
                      THEN RowPart(promise[t].val.data) ELSE NoBody
              rest == {u \in TaskIds \ {t} : fetch[u].owner = r}
          IN /\ Consumed(t)
             /\ req' = [req EXCEPT ![r] =
                          [rq EXCEPT !.results[slot] = data,
                                     !.pc = IF rest = {} THEN "resume" ELSE "await"]]
  /\ UNCHANGED cacheVars

\* app.get("/api/aggregate/rows") after `await Promise.all(...)`:
\* cache.set(key, rows, { ttl: TTL.ROWS }) and 200 with X-Proxy-Cache: MISS
RowsResume ==
  /\ \E r \in ReqIds :
       /\ req[r].pc = "resume"
       /\ req[r].route = "rows"
       /\ LET rq   == req[r]
              key  == RowsKey(rq.gw, rq.ids)
              rows == RowsOf(rq.ids, rq.results)
              data == [st |-> 200, form |-> "rows", rows |-> rows]
          IN /\ cache' = SetCache(cache, key, data, TTL_ROWS)
             /\ lastPut' = SetCache(lastPut, key, data, TTL_ROWS)
             /\ req' = [req EXCEPT ![r] =
                          [rq EXCEPT !.pc = "done", !.results = <<>>,
                                     !.resp = [NoResp EXCEPT !.status = 200,
                                                             !.xcache = "MISS",
                                                             !.results = rows]]]
  /\ UNCHANGED <<schedVars, obsVars, fetch>>

\* ---------------------------------------- the first server (src/index.js)
\* It has no scheduler and no cache: the handler of request r awaits
\* fetchUpstreamWithRetries directly; fetch[r] is that call's position and
\* promise[r] the promise it returned.

\* the promise of fetchUpstreamWithRetries settles and the handler resumes
IdxSettle(r, state, val) ==
  /\ promise' = [promise EXCEPT ![r] = [state |-> state, val |-> val]]
  /\ req' = [req EXCEPT ![r].pc = "resume"]

\* app.use("/api", ...) of the first server up to the await
IdxArrives ==
  /\ Settled
  /\ NumReqs < MaxReqs
  /\ \E method \in Methods, path \in ProxyPaths :
       LET r  == NumReqs + 1
           rq == [NoReq EXCEPT !.route = "index", !.method = method, !.path = path]
       IN IF method = "OPTIONS"
          THEN /\ req' = [req EXCEPT ![r] = [rq EXCEPT !.pc = "done", !.resp = CorsPreflight]]
               /\ fetch' = fetch
          ELSE IF method \notin {"GET", "HEAD"}
          THEN /\ req' = [req EXCEPT ![r] = [rq EXCEPT !.pc = "done", !.resp = MethodNotAllowed]]
               /\ fetch' = fetch
          ELSE /\ req' = [req EXCEPT ![r] = [rq EXCEPT !.pc = "await", !.task = r]]
               /\ fetch' = [fetch EXCEPT ![r] =
                              [url |-> path, sensitive |-> IsSensitivePath(path), i |-> 0,
                               last |-> NoValue, fpc |-> "icall", owner |-> r,
                               calls |-> 0, seen |-> NoValue, only403 |-> TRUE,
                                       wait |-> 0, prev |-> 0]]
  /\ UNCHANGED <<schedVars, obsVars, cacheVars>>

\* `if (!retryable) return resp;`
IdxAxiosFinal ==
  /\ Settled
  /\ \E r \in ReqIds, b \in Answers :
       /\ fetch[r].fpc = "icall"
       /\ ~Retryable(b.st, fetch[r].sensitive)
       /\ fetch' = [fetch EXCEPT ![r].calls = @ + 1, ![r].seen = Response(r, b.st, b.form),
                                 ![r].only403 = @ /\ b.st = 403,
                                 ![r].fpc = "end"]
       /\ IdxSettle(r, "resolved", Response(r, b.st, b.form))
  /\ UNCHANGED <<active, q, timers, nTasks, tstate, obsVars, cacheVars>>

\* a retryable status: sleep and continue while i < attempts - 1, on the
\* last attempt `return resp`
IdxAxiosRetryable ==
  /\ Settled
  /\ \E r \in ReqIds, b \in Answers :
       /\ fetch[r].fpc = "icall"
       /\ Retryable(b.st, fetch[r].sensitive)
       /\ IF fetch[r].i < ATTEMPTS - 1
          THEN /\ fetch' = [fetch EXCEPT ![r].calls = @ + 1,
                                         ![r].seen = Response(r, b.st, b.form),
                                 ![r].only403 = @ /\ b.st = 403,
                                         ![r].fpc = "isleep"]
               /\ UNCHANGED <<promise, req>>
          ELSE /\ fetch' = [fetch EXCEPT ![r].calls = @ + 1,
                                         ![r].seen = Response(r, b.st, b.form),
                                 ![r].only403 = @ /\ b.st = 403,
                                         ![r].fpc = "end"]
               /\ IdxSettle(r, "resolved", Response(r, b.st, b.form))
  /\ UNCHANGED <<active, q, timers, nTasks, tstate, obsVars, cacheVars>>

\* `catch (e) { lastErr = e; ...`: sleep and continue while i < attempts - 1,
\* on the last attempt `throw e`
IdxAxiosThrows ==
  /\ Settled
  /\ \E r \in ReqIds :
       /\ fetch[r].fpc = "icall"
       /\ IF fetch[r].i < ATTEMPTS - 1
          THEN /\ fetch' = [fetch EXCEPT ![r].calls = @ + 1, ![r].seen = AxiosError(r), ![r].only403 = FALSE,
                                         ![r].last = AxiosError(r), ![r].fpc = "isleep"]
               /\ UNCHANGED <<promise, req>>
          ELSE /\ fetch' = [fetch EXCEPT ![r].calls = @ + 1, ![r].seen = AxiosError(r), ![r].only403 = FALSE,
                                         ![r].last = AxiosError(r), ![r].fpc = "end"]
               /\ IdxSettle(r, "rejected", AxiosError(r))
  /\ UNCHANGED <<active, q, timers, nTasks, tstate, obsVars, cacheVars>>

\* `await sleep(...); continue;`: i++ and the next axios.get
IdxBackoff ==
  /\ Settled
  /\ \E r \in ReqIds :
       /\ fetch[r].fpc = "isleep"
       /\ fetch' = [fetch EXCEPT ![r].i = @ + 1, ![r].fpc = "icall"]
  /\ UNCHANGED <<schedVars, obsVars, cacheVars, req>>

\* the first server's handler after the await:
\* res.status(upstream.status).send(upstream.data), or the catch block (502)
IdxResume ==
  /\ \E r \in ReqIds :
       /\ req[r].pc = "resume"
       /\ req[r].route = "index"
       /\ LET p  == promise[r]
              up == p.val
          IN req' = [req EXCEPT ![r].pc = "done", ![r].final = up,
                       ![r].failed = (p.state = "rejected" \/ up.status < 200 \/ up.status >= 300),
                       ![r].resp = IF p.state = "rejected"
                                   THEN [NoResp EXCEPT !.status = 502,
                                                       !.body = [st |-> 0, form |-> "error"]]
                                   ELSE [NoResp EXCEPT !.status = up.status, !.body = up.data]]
       /\ promise' = [promise EXCEPT ![r] = Pending]
       /\ fetch' = [fetch EXCEPT ![r] = NoFetch]
  /\ UNCHANGED <<active, q, timers, nTasks, tstate, obsVars, cacheVars>>

\* ------------------------------------------------ the timed retry loop
\* The loop of one fetch whose attempts all fail, with the length of each
\* backoff wait; outcomes, scheduler and handlers are left out.
BACKOFF_BASE_MS == 500
BACKOFF_BASE_ERR_MS == 600
JITTER_SPAN == 300
\* Math.floor(Math.random() * 300)
Jitters == 0..(JITTER_SPAN - 1)
\* a wait that does not grow with the attempt
BackoffMsFlat(base, i, jitter) == base + jitter
\* 500 * (i + 1) + jitter, 600 * (i + 1) + jitter
BackoffMs(base, i, jitter) == base * (i + 1) + jitter

\* a fetch starts in one of the three fetchers
BackoffBegin ==
  /\ fetch[1].fpc \in {"none", "end"}
  /\ \E v \in {"call", "pass1", "icall"} :
       fetch' = [fetch EXCEPT ![1] = [NoFetch EXCEPT !.fpc = v]]
  /\ UNCHANGED <<schedVars, obsVars, cacheVars, req>>

\* part_000: an attempt that did not return is followed by
\* setTimeout(r, 500 * (i + 1) + Math.floor(Math.random()*300))
BackoffSleep ==
  /\ fetch[1].fpc = "call"
  /\ \E jitter \in Jitters :
       fetch' = [fetch EXCEPT ![1].fpc = "sleep", ![1].prev = fetch[1].wait,
                              ![1].wait = BackoffMs(BACKOFF_BASE_MS, fetch[1].i, jitter)]
  /\ UNCHANGED <<schedVars, obsVars, cacheVars, req>>

\* part_001: both header sets failed, then
\* setTimeout(r, 500*(i+1)+Math.floor(Math.random()*300))
BackoffSleep001 ==
  /\ fetch[1].fpc = "pass1"
  /\ \E jitter \in Jitters :
       fetch' = [fetch EXCEPT ![1].fpc = "sleep001", ![1].prev = fetch[1].wait,
                              ![1].wait = BackoffMs(BACKOFF_BASE_MS, fetch[1].i, jitter)]
  /\ UNCHANGED <<schedVars, obsVars, cacheVars, req>>

\* src/index.js: while i < attempts - 1 a retryable response is followed by
\* sleep(500 * (i + 1) + jitter) and an error by sleep(600 * (i + 1) + jitter);
\* the last attempt returns or throws at once
BackoffSleepIdx ==
  /\ fetch[1].fpc = "icall"
  /\ IF fetch[1].i < ATTEMPTS - 1
     THEN \E base \in {BACKOFF_BASE_MS, BACKOFF_BASE_ERR_MS}, jitter \in Jitters :
            fetch' = [fetch EXCEPT ![1].fpc = "isleep", ![1].prev = fetch[1].wait,
                                   ![1].wait = BackoffMs(base, fetch[1].i, jitter)]
     ELSE fetch' = [fetch EXCEPT ![1].fpc = "end", ![1].prev = 0]
  /\ UNCHANGED <<schedVars, obsVars, cacheVars, req>>

\* the wait is over: i++, and the next attempt while i < attempts, else the
\* loop ends (part_000, part_001); `continue` (src/index.js)
BackoffWake ==
  /\ fetch[1].fpc \in {"sleep", "sleep001", "isleep"}
  /\ LET again == IF fetch[1].fpc = "sleep" THEN "call"
                  ELSE IF fetch[1].fpc = "sleep001" THEN "pass1" ELSE "icall"
     IN fetch' = [fetch EXCEPT ![1].i = @ + 1, ![1].prev = 0,
                               ![1].fpc = IF fetch[1].fpc = "isleep" \/ fetch[1].i + 1 < ATTEMPTS
                                          THEN again ELSE "end"]
  /\ UNCHANGED <<schedVars, obsVars, cacheVars, req>>

\* ------------------------------------------------------- specifications
SchedInit ==
  /\ active = 0
  /\ q = <<>>
  /\ timers = [k \in 0..UPSTREAM_DELAY_MS |-> 0]
  /\ nTasks = 0
  /\ tstate = [t \in TaskIds |-> "none"]
  /\ promise = [t \in TaskIds |-> Pending]
  /\ lastStarted = 0
  /\ lastDisp = NoDisp
  /\ sinceEnd = -1
  /\ execCount = [t \in TaskIds |-> 0]
  /\ settleCount = [t \in TaskIds |-> 0]
  /\ outcome = [t \in TaskIds |-> NoOutcome]

CacheInit ==
  /\ cache = [u \in Keys |-> NoEntry]
  /\ lastPut = [u \in Keys |-> NoEntry]

PipeInit ==
  /\ fetch = [t \in TaskIds |-> NoFetch]
  /\ req = [r \in ReqIds |-> NoReq]

Init == SchedInit /\ CacheInit /\ PipeInit

SchedNext == Schedule \/ TaskReturns \/ TaskThrows \/ PumpTimer \/ Tick

\* The scheduler driven by arbitrary callers and arbitrary tasks.
SchedSpec == Init /\ [][SchedNext]_vars

\* Every dispatched task completes, every armed timer fires, time passes.
SchedFairSpec ==
  /\ Init /\ [][SchedNext]_vars
  /\ \A t \in TaskIds : WF_vars(TaskEnds(t, "return") \/ TaskEnds(t, "throw"))
  /\ WF_vars(PumpTimer)
  /\ WF_vars(Tick)

CacheNext == CachePut \/ CacheRead \/ CacheTime

\* The cache driven by arbitrary callers.
CacheSpec == Init /\ [][CacheNext]_vars

Next ==
  \/ ProxyArrives \/ ProxyResume
  \/ AggArrives \/ AggIter \/ SummaryResume \/ HistoryResume
  \/ AxiosFinal \/ AxiosRetryable \/ AxiosThrows \/ BackoffRetry \/ BackoffExhausted
  \/ Close \/ PumpTimer \/ Tick \/ CacheTime

\* The proxy: inbound requests, the scheduler, the fetcher, the cache, time.
Spec == Init /\ [][Next]_vars

Next001 ==
  \/ ProxyArrives001 \/ ProxyResume001
  \/ RowsArrives \/ RowsFanOut \/ RowsCollect \/ RowsResume
  \/ AxiosFinal001 \/ AxiosRetryable001 \/ AxiosThrows001
  \/ BackoffRetry001 \/ BackoffExhausted001
  \/ Close \/ PumpTimer \/ Tick \/ CacheTime

\* The later server: inbound requests, the scheduler, the header-variant
\* fetcher, the cache, time.
Spec001 == Init /\ [][Next001]_vars

RowsNext ==
  \/ RowsArrivesTwoIds \/ RowsFanOut \/ RowsCollect \/ RowsResume
  \/ AxiosFinal001 \/ AxiosRetryable001 \/ AxiosThrows001
  \/ BackoffRetry001 \/ BackoffExhausted001
  \/ Close \/ PumpTimer \/ Tick \/ CacheTime

\* The later server with requests for the rows of two entries only.
RowsSpec == Init /\ [][RowsNext]_vars

\* GET requests for one entry through the generic proxy, and requests for
\* the rows of that entry: the three fetches of a rows request and a proxy
\* request compete for the two slots of the scheduler
ProxyArrivesGet == ProxyArrives001From({"GET"}, {EntryPath(1)})
RowsArrivesOneId == RowsArrivesFrom({<<1>>}, MaxFetches001)

FairNext001 ==
  \/ ProxyArrivesGet \/ ProxyResume001
  \/ RowsArrivesOneId \/ RowsFanOut \/ RowsCollect \/ RowsResume
  \/ AxiosFinal001 \/ AxiosRetryable001 \/ AxiosThrows001
  \/ BackoffRetry001 \/ BackoffExhausted001
  \/ Close \/ PumpTimer \/ Tick \/ CacheTime

\* The later server when every outbound call returns or times out, every
\* timer fires, time passes and the event loop runs the callbacks that are
\* ready.
FairSpec001 ==
  /\ Init /\ [][FairNext001]_vars
  /\ WF_vars(AxiosFinal001 \/ AxiosRetryable001 \/ AxiosThrows001)
  /\ WF_vars(BackoffRetry001 \/ BackoffExhausted001)
  /\ WF_vars(PumpTimer)
  /\ WF_vars(Tick)
  /\ WF_vars(ProxyResume001)
  /\ WF_vars(RowsFanOut \/ RowsCollect \/ RowsResume)
  /\ WF_vars(Close)

IndexNext ==
  \/ IdxArrives \/ IdxResume
  \/ IdxAxiosFinal \/ IdxAxiosRetryable \/ IdxAxiosThrows \/ IdxBackoff
  \/ Close

\* The first server: inbound requests and the retrying fetcher.
IndexSpec == Init /\ [][IndexNext]_vars

BackoffNext ==
  \/ BackoffBegin \/ BackoffSleep \/ BackoffSleep001 \/ BackoffSleepIdx \/ BackoffWake

\* The retry loop of one fetch with the lengths of its waits.
BackoffSpec == Init /\ [][BackoffNext]_vars

\* ----------------------------------------------------------------- claims

\* the tasks that were dispatched and have not completed
Running == {t \in TaskIds : tstate[t] = "running"}
\* the tasks that were dispatched
HasStarted(t) == tstate[t] \in {"running", "done", "gone"}

\* C1: the number of dispatched, not yet completed tasks (active) never
\* exceeds UPSTREAM_CONCURRENCY, under any interleaving of schedule() calls,
\* completions and pump timers.
C1_ConcurrencyBound ==
  /\ active <= UPSTREAM_CONCURRENCY
  /\ Cardinality(Running) <= UPSTREAM_CONCURRENCY
\* a burst of more than C enqueues: C tasks run and another waits
C1_Witness ==
  /\ active = UPSTREAM_CONCURRENCY
  /\ Cardinality(Running) = UPSTREAM_CONCURRENCY
  /\ Len(q) >= 2

\* C2: any two consecutive dispatches are at least D apart, measured from
\* the completion of the first dispatched task to the start of the second.
C2_DispatchSpacing ==
  lastDisp.hasPrev => (lastDisp.prevEnded /\ lastDisp.gap >= UPSTREAM_DELAY_MS)

\* C3: tasks start in the order of their schedule() calls, whichever event
\* (a schedule() call or a pump timer) triggers the dispatch.
C3_FifoDispatch ==
  /\ \A a, b \in TaskIds : (a < b /\ HasStarted(b)) => HasStarted(a)
  /\ \A i, j \in 1..Len(q) : i < j => q[i] < q[j]
\* two tasks scheduled after the first C were both started, and the later
\* one completed first
C3_Witness ==
  \E a, b \in TaskIds :
    /\ UPSTREAM_CONCURRENCY < a
    /\ a < b
    /\ tstate[a] = "running"
    /\ tstate[b] = "done"

\* C4: no starvation: with every dispatched task completing and every pump
\* timer firing, each task passed to schedule() is eventually dispatched and
\* its promise settled; and whenever the queue is non-empty with a free
\* slot, a pump call is pending.
C4_NoStarvation ==
  /\ [](q # <<>> /\ active < UPSTREAM_CONCURRENCY => TimersPending)
  /\ \A t \in TaskIds :
       (tstate[t] = "queued") ~> (tstate[t] = "done" /\ promise[t].state # "pending")
\* a task that had to wait in the queue behind running tasks has settled
C4_Witness ==
  \E t \in TaskIds :
    /\ t > UPSTREAM_CONCURRENCY
    /\ tstate[t] = "done"
    /\ promise[t].state # "pending"

\* C5: each task function runs exactly once and the promise its caller got
\* settles exactly once, resolved with that task's return value or rejected
\* with that task's thrown value.
C5_OwnOutcomeOnce ==
  \A t \in TaskIds :
    /\ execCount[t] <= 1
    /\ settleCount[t] <= 1
    /\ (tstate[t] \in {"none", "queued"}) => (execCount[t] = 0 /\ promise[t] = Pending)
    /\ (tstate[t] = "running") => (execCount[t] = 1 /\ promise[t] = Pending)
    /\ (tstate[t] = "done") =>
         /\ execCount[t] = 1
         /\ settleCount[t] = 1
         /\ outcome[t].kind = "return" => promise[t] = [state |-> "resolved", val |-> outcome[t].val]
         /\ outcome[t].kind = "throw" => promise[t] = [state |-> "rejected", val |-> outcome[t].val]
\* two tasks have completed, one by returning and one by throwing, with
\* different values
C5_Witness ==
  \E a, b \in TaskIds :
    /\ promise[a].state = "resolved"
    /\ promise[b].state = "rejected"
    /\ promise[a].val # promise[b].val

\* C6: an entry written with setCache(url, data, ttl) and not overwritten is
\* returned by getFresh until ttl has elapsed; after that getFresh returns
\* absent while getStale still returns data until the stale horizon has
\* elapsed since the write, and after that getStale returns absent too.
C6_FreshThenStale ==
  \A u \in Urls :
    lastPut[u] # NoEntry =>
      LET e == lastPut[u] IN
        /\ e.age <= e.ttl => GetFresh(cache, u) = e.data
        /\ e.age > e.ttl =>
             /\ GetFresh(cache, u) = NoBody
             /\ e.age <= STALE_HORIZON => GetStale(cache, u) = e.data
        /\ e.age > STALE_HORIZON => GetStale(cache, u) = NoBody

\* C7: every cache entry holds the body of an upstream response that had a
\* 2xx status: no route writes the body of a non-2xx response or of a failed
\* fetch into the cache.
C7_Only2xxCached ==
  \A u \in Urls :
    cache[u] # NoEntry => (cache[u].data.st >= 200 /\ cache[u].data.st < 300)

\* C8: a request to the generic proxy that finds an entry within its ttl for
\* the target URL is answered from that entry (200, X-Proxy-Cache: HIT), and
\* no task is scheduled and no outbound call is made for it.
C8_FreshPreferred ==
  \A r \in ReqIds :
    (req[r].route = "proxy" /\ req[r].hadFresh) =>
      /\ req[r].pc = "done"
      /\ req[r].resp = HitResponse(req[r].freshSeen)
      /\ req[r].task = 0

\* the last write for the URL of a failed fetch was a 2xx body that is past
\* its ttl and within the stale horizon
StaleInHorizon(e) ==
  /\ e # NoEntry
  /\ e.data.st >= 200 /\ e.data.st < 300
  /\ e.age > e.ttl
  /\ e.age <= STALE_HORIZON

\* C9: when the fetch of the generic proxy fails and the URL was written by
\* a successful fetch longer ago than its ttl and within the stale horizon,
\* the response is 200 with X-Proxy-Stale: 1 and the stored body.
C9_StaleOnFailure ==
  \A r \in ReqIds :
    (req[r].route = "proxy" /\ req[r].pc = "done" /\ req[r].failed
       /\ StaleInHorizon(req[r].lastAtFail)) =>
      /\ req[r].resp.status = 200
      /\ req[r].resp.xstale
      /\ req[r].resp.body = req[r].lastAtFail.data

\* the URL of a failed fetch has no entry, fresh or stale: it was never
\* written, or its last write is past its ttl and past the stale horizon
NoEntryAtAll(e) == e = NoEntry \/ (e.age > e.ttl /\ e.age > STALE_HORIZON)

\* C10 as stated: whenever the fetch of the generic proxy fails (a non-2xx
\* final status or a transport failure after retries) and the cache holds no
\* entry for the URL, the response status is 502.
C10_AnyFailure502 ==
  \A r \in ReqIds :
    (req[r].route = "proxy" /\ req[r].pc = "done" /\ req[r].failed
       /\ NoEntryAtAll(req[r].lastAtFail)) =>
      req[r].resp.status = 502

\* C10 amended: whenever the fetch of the generic proxy ends in a transport
\* failure after its retries (its outcome has no HTTP status) and the cache
\* holds no entry for the URL, the response status is 502.
C10_TransportFailure502 ==
  \A r \in ReqIds :
    (req[r].route = "proxy" /\ req[r].pc = "done" /\ req[r].failed
       /\ req[r].final.status = 0
       /\ NoEntryAtAll(req[r].lastAtFail)) =>
      req[r].resp.status = 502

\* a request whose three calls all failed without a response, for a URL that
\* was never written, was answered 502
C10_Witness ==
  \E r \in ReqIds :
    /\ req[r].route = "proxy" /\ req[r].pc = "done" /\ req[r].failed
    /\ req[r].final.status = 0
    /\ req[r].lastAtFail = NoEntry
    /\ req[r].resp.status = 502

\* a request to a generic proxy (either server) whose fetch failed was answered
ProxyFailed(r) ==
  /\ req[r].route \in {"proxy", "proxy001"}
  /\ req[r].pc = "done"
  /\ req[r].failed

\* C11: when the fetch of a generic proxy request ends with a non-2xx upstream
\* status and the cache holds no entry for the URL, the response carries
\* exactly that status and that body; when it ends in a transport failure,
\* the response is 502; in neither case is the response a 2xx.
C11_UpstreamStatusPassedOn ==
  \A r \in ReqIds :
    (ProxyFailed(r) /\ NoEntryAtAll(req[r].lastAtFail)) =>
      /\ req[r].final.status # 0 =>
           (req[r].resp.status = req[r].final.status
              /\ req[r].resp.body = req[r].final.data)
      /\ req[r].final.status = 0 => req[r].resp.status = 502
      /\ ~(req[r].resp.status >= 200 /\ req[r].resp.status < 300)

\* the statuses after which the claim lets the fetcher go on
RetryStatus(s, sensitive) == s = 429 \/ s >= 500 \/ (s = 403 /\ sensitive)

Exhausted(t) ==
  /\ fetch[t].fpc = "end"
  /\ \/ fetch[t].seen.status = 0
     \/ RetryStatus(fetch[t].seen.status, fetch[t].sensitive)

\* C13: when a fetch is over after its last call ended in a retryable
\* response or a transport error, its outcome is what that last call ended
\* with: the response or the error itself, never an earlier or a made-up one.
C13_LastOutcome ==
  \A t \in TaskIds :
    Exhausted(t) =>
      /\ promise[t].state \in {"resolved", "rejected"}
      /\ promise[t].val = fetch[t].seen
\* a fetch whose first call got a retryable response and whose third call
\* failed without a response is over, rejected with that error
C13_Witness ==
  \E t \in TaskIds :
    /\ Exhausted(t)
    /\ fetch[t].calls = ATTEMPTS
    /\ fetch[t].seen = AxiosError(t)
    /\ promise[t] = [state |-> "rejected", val |-> AxiosError(t)]

\* C14: one fetch makes at most ATTEMPTS (3) outbound calls, whatever
\* upstream answers.
C14_AtMostAttemptsCalls ==
  \A t \in TaskIds : fetch[t].calls <= ATTEMPTS

\* the handler of aggregate request r has its fetch result and is about to
\* push the entry of the id it is at
AggResuming(r) == req[r].route \in {"summary", "history"} /\ req[r].pc = "resume"
\* that fetch ended with a non-2xx status or without a response
AggFetchFailed(r) ==
  LET up == promise[req[r].task].val
  IN up.status = 0 \/ up.status < 200 \/ up.status >= 300

\* C15: an aggregate request with k valid ids is answered with exactly k
\* entries, one per id in request order; the entry of an id whose fetch
\* failed (non-2xx final status or transport failure) while the cache holds
\* nothing for its URL has ok = FALSE, the entry of an id whose fetch
\* succeeded has ok = TRUE, and every id gets its entry whatever happened to
\* the ids before it.
C15_AggregatePartialSuccess ==
  /\ [](\A r \in ReqIds :
         (req[r].route \in {"summary", "history"} /\ req[r].pc = "done"
            /\ req[r].ids # <<>>) =>
           /\ Len(req[r].resp.results) = Len(req[r].ids)
           /\ \A j \in 1..Len(req[r].ids) : req[r].resp.results[j].id = req[r].ids[j])
  /\ [][\A r \in ReqIds :
          AggResuming(r) =>
            /\ Len(req'[r].results) = Len(req[r].results) + 1
            /\ LET entry == req'[r].results[Len(req'[r].results)]
               IN /\ entry.id = req[r].ids[req[r].k]
                  /\ ~AggFetchFailed(r) => entry.ok
                  /\ (AggFetchFailed(r) /\ NoEntryAtAll(lastPut[AggUrl(req[r])])) =>
                       ~entry.ok]_vars

\* in this step a request under /api/ with method m arrives as request r
ArrivesWith(r, m) ==
  /\ req[r].route = "none"
  /\ req'[r].route \in {"proxy", "proxy001", "index"}
  /\ req'[r].method = m
\* the step answers request r with the given status and neither reads nor
\* writes the cache, enqueues nothing and starts no outbound call
AnsweredUntouched(r, status) ==
  /\ req'[r].pc = "done"
  /\ req'[r].resp.status = status
  /\ req'[r].task = 0
  /\ ~req'[r].hadFresh
  /\ UNCHANGED <<cache, lastPut, active, q, timers, nTasks, tstate, fetch>>

ProxyGot2xx(r) ==
  /\ req[r].route = "proxy"
  /\ req[r].pc = "resume"
  /\ promise[req[r].task].val.status >= 200
  /\ promise[req[r].task].val.status < 300

\* C17: a 2xx response for URL u is stored under u with the path's ttl and
\* answered 200 with X-Proxy-Cache: MISS; every later request for u that
\* arrives while that entry is within its ttl is answered 200 with
\* X-Proxy-Cache: HIT and the stored body, without a task or an outbound call.
C17_StoreThenHit ==
  /\ [][\A r \in ReqIds :
          ProxyGot2xx(r) =>
            LET up == promise[req[r].task].val
            IN /\ cache'[req[r].path] = [data |-> up.data, age |-> 0,
                                         ttl |-> TtlFor(req[r].path)]
               /\ req'[r].resp = MissResponse(up.data)]_vars
  /\ [](\A r \in ReqIds :
         (req[r].route = "proxy" /\ req[r].hadFresh
            /\ req[r].freshSeen.st >= 200 /\ req[r].freshSeen.st < 300) =>
           /\ req[r].pc = "done"
           /\ req[r].resp = HitResponse(req[r].freshSeen)
           /\ req[r].task = 0)

\* in this step a request for an aggregate or for the rows arrives as
\* request r
AggOrRowsArrives(r) ==
  /\ req[r].route = "none"
  /\ req'[r].route \in {"summary", "history", "rows"}
\* the ids of request r hold no valid id (the token 0), or it is a rows
\* request without a valid gw
InvalidQuery(rq) ==
  \/ \A j \in 1..Len(rq.ids) : rq.ids[j] = 0
  \/ (rq.route = "rows" /\ rq.gw = 0)

\* C18: an aggregate or rows request without a valid id (or, for the rows,
\* without a valid gw) is answered 400 in the step in which it arrives,
\* without a cache read or write, an enqueue or an outbound call.
C18_ValidationError400 ==
  [][\A r \in ReqIds :
       (AggOrRowsArrives(r) /\ InvalidQuery(req'[r])) =>
         AnsweredUntouched(r, 400)]_vars
\* a request without a valid id was answered 400 while the fetch of another
\* request is running
C18_Witness ==
  \E r \in ReqIds :
    /\ req[r].route \in {"summary", "history", "rows"}
    /\ req[r].ids = <<>>
    /\ req[r].pc = "done"
    /\ req[r].resp.status = 400
    /\ active = 1
    /\ \E t \in TaskIds : tstate[t] = "running"

\* the fetches that have an axios.get in flight
CallsInFlight == {t \in TaskIds : fetch[t].fpc \in {"call", "pass1", "pass2"}
                                    /\ tstate[t] \notin {"queued", "none"}}

\* C19: at most UPSTREAM_CONCURRENCY outbound calls are in flight at any
\* moment, over all requests, retries, header variants and the fan-out of
\* the rows endpoint; each of them belongs to a task that was dispatched and
\* has not completed.
C19_CallsInFlightBound ==
  /\ Cardinality(CallsInFlight) <= UPSTREAM_CONCURRENCY
  /\ CallsInFlight \subseteq Running
  /\ Cardinality(Running) = active
\* both fetches of a rows request are in flight, one of them in a repeated
\* call, while the fetch of a generic proxy request waits in the queue
C19_Witness ==
  /\ Cardinality(CallsInFlight) = UPSTREAM_CONCURRENCY
  /\ \E r \in ReqIds : req[r].route = "rows" /\ req[r].pc = "await"
  /\ \E t \in CallsInFlight : fetch[t].calls >= 1
  /\ \E t \in TaskIds : tstate[t] = "queued" /\ req[fetch[t].owner].route = "proxy001"

\* generic proxy requests a and b for the same URL are both being handled
\* and each has started a fetch
BothInProgress(a, b) ==
  /\ a # b
  /\ req[a].route = "proxy" /\ req[b].route = "proxy"
  /\ req[a].path = req[b].path
  /\ req[a].task # 0 /\ req[b].task # 0

\* C20: two requests for the same uncached URL that are in progress together
\* have two tasks and two fetches of their own; a request that gets a 2xx
\* response writes the whole payload of its own fetch into the cache (so the
\* entry is the payload of the later write) and answers with that payload.
C20_NoCoalescing ==
  /\ [](\A a, b \in ReqIds :
         BothInProgress(a, b) =>
           /\ req[a].task # req[b].task
           /\ \A r \in {a, b} :
                /\ req[r].pc = "await" => fetch[req[r].task].owner = r
                /\ (req[r].pc = "done" /\ ~req[r].failed) =>
                     /\ req[r].final.of = req[r].task
                     /\ req[r].resp = MissResponse(req[r].final.data))
  /\ [][\A r \in ReqIds :
          ProxyGot2xx(r) =>
            LET up == promise[req[r].task].val
            IN /\ up.of = req[r].task
               /\ cache'[req[r].path].data = up.data
               /\ lastPut'[req[r].path].data = up.data
               /\ req'[r].resp.body = up.data]_vars
\* of two requests for the same URL the first has stored and sent the
\* payload of its fetch, while the fetch of the other, started before that,
\* is still running after a retryable answer
C20_Witness ==
  \E a, b \in ReqIds :
    /\ BothInProgress(a, b)
    /\ req[a].pc = "done" /\ ~req[a].failed
    /\ req[a].resp = MissResponse(req[a].final.data)
    /\ cache[req[a].path].data = req[a].final.data
    /\ req[b].pc = "await"
    /\ tstate[req[b].task] = "running"
    /\ fetch[req[b].task].calls >= 1

\* C21: active always equals the number of tasks that were dispatched and
\* have not completed; it is never negative, it is 0 whenever no task is
\* running, and it goes down by exactly one in every step in which a task
\* completes, by returning or by throwing, and in no other step.
C21_ActiveCountsRunning ==
  /\ [](active = Cardinality(Running) /\ active >= 0)
  /\ [][(\A t \in TaskIds :
            (tstate[t] = "running" /\ tstate'[t] = "done") => active' = active - 1)
         /\ (active' < active =>
               Cardinality({t \in TaskIds : tstate[t] = "running"
                                              /\ tstate'[t] = "done"}) = 1)]_vars
\* after a task that returned and a task that threw no task is running and
\* active is back at 0, with a task still waiting for the pump timer
C21_Witness ==
  /\ active = 0
  /\ Running = {}
  /\ \E a, b \in TaskIds :
       /\ tstate[a] = "done" /\ outcome[a].kind = "return"
       /\ tstate[b] = "done" /\ outcome[b].kind = "throw"
  /\ q # <<>>

\* the positions of a fetch in which no call is in flight: a backoff wait,
\* or the fetch is over
WaitingOrOver == {"sleep", "sleep001", "isleep", "end"}

\* C22: within one fetch every call after the first comes after a backoff
\* wait that follows the previous outcome: when a call of a fetch ends, the
\* fetch goes into a wait or is over, never straight into another call.
C22_WaitBetweenCalls ==
  [][\A t \in TaskIds :
       fetch'[t].calls = fetch[t].calls + 1 => fetch'[t].fpc \in WaitingOrOver]_vars

\* C23: a backoff wait happens only when another attempt follows it: a
\* fetch that is in a wait has attempts left in its budget, so that after
\* the outcome of the last attempt the fetch is over without a delay.
C23_NoWaitAfterLastAttempt ==
  \A t \in TaskIds :
    fetch[t].fpc \in {"sleep", "sleep001", "isleep"} => fetch[t].i + 1 < ATTEMPTS

\* C24: the backoff wait grows strictly from one attempt to the next for
\* every choice of the jitters: a wait is longer than the wait before it.
C24_BackoffGrows ==
  \A t \in TaskIds : fetch[t].prev > 0 => fetch[t].wait > fetch[t].prev
\* the closest case: in src/index.js a wait of 600 + 299 ms after an error
\* in the first attempt, then a wait of 1000 + 0 ms after a retryable
\* response in the second
C24_Witness ==
  /\ fetch[1].fpc = "isleep"
  /\ fetch[1].i = 1
  /\ fetch[1].prev = BACKOFF_BASE_ERR_MS + JITTER_SPAN - 1
  /\ fetch[1].wait = 2 * BACKOFF_BASE_MS

\* C25: a fetch for a sensitive endpoint whose calls were all answered with
\* 403 makes at most two calls: the 403 is retried a single time.
C25_Single403Retry ==
  \A t \in TaskIds :
    (fetch[t].sensitive /\ fetch[t].only403) => fetch[t].calls <= 2

\* the handler of generic proxy request r (either server) is about to resume
ProxyResuming(r) ==
  /\ req[r].route \in {"proxy", "proxy001"}
  /\ req[r].pc = "resume"
Is2xx(status) == status >= 200 /\ status < 300

\* C26: a generic proxy response with X-Proxy-Stale: 1 has status 200, the
\* body the cache held for the URL, and X-Proxy-Upstream-Status equal to the
\* status the request's own fetch ended with (ERR for a transport failure),
\* which is not a 2xx; it carries no X-Proxy-Cache header; a request whose
\* fetch ended with a 2xx answer is never answered with X-Proxy-Stale.
C26_StaleHeaders ==
  /\ [](\A r \in ReqIds :
         (req[r].route \in {"proxy", "proxy001"} /\ req[r].resp.xstale) =>
           /\ req[r].resp.status = 200
           /\ req[r].resp.xcache = "none"
           /\ req[r].failed)
  /\ [][\A r \in ReqIds :
          ProxyResuming(r) =>
            LET seen == fetch[req[r].task].seen
            IN (req'[r].resp.xstale =>
                    (LruHas(cache, req[r].path)
                     /\ req'[r].resp.body = cache[req[r].path].data
                     /\ ~Is2xx(seen.status)
                     /\ req'[r].resp.xupstream =
                          (IF seen.status = 0 THEN "ERR" ELSE ToString(seen.status))))
               /\ (Is2xx(seen.status) => ~req'[r].resp.xstale)]_vars
\* a request that found no entry was answered from the entry another request
\* stored meanwhile, after its own fetch ended with a 500 answer
C26_Witness ==
  \E r \in ReqIds :
    /\ req[r].route = "proxy" /\ req[r].pc = "done"
    /\ ~req[r].hadFresh
    /\ req[r].final.status = 500
    /\ req[r].resp.xstale
    /\ req[r].resp.xupstream = "500"
    /\ req[r].resp.body = cache[req[r].path].data

\* C27: two routes that store a payload for the same outbound URL use the
\* same ttl: an entry for `entry/<id>/` always has TTL.SUMMARY and an entry
\* for `entry/<id>/history/` always has TTL.HISTORY, whether the generic
\* proxy or an aggregate route stored it.
C27_SameTtlPerUrl ==
  \A id \in Ids :
    /\ cache[EntryPath(id)] # NoEntry => cache[EntryPath(id)].ttl = TTL_SUMMARY
    /\ cache[HistoryPath(id)] # NoEntry => cache[HistoryPath(id)].ttl = TTL_HISTORY

\* C28: the later server answers with a placeholder document only when the
\* request's fetch ended with status 403, the cache holds no entry at all for
\* the URL and the path is of one of the listed kinds; the response is then
\* 200 with X-Proxy-Soft: 1 and X-Proxy-Upstream-Status: 403 and without
\* X-Proxy-Stale and X-Proxy-Cache, and the step leaves the cache as it was.
C28_SoftOnlyWithoutEntry ==
  [][\A r \in ReqIds :
       (ProxyResuming(r) /\ req'[r].resp.xsoft) =>
         (fetch[req[r].task].seen.status = 403
          /\ cache[req[r].path] = NoEntry
          /\ Softable(req[r].path, 403)
          /\ req'[r].resp.status = 200
          /\ req'[r].resp.xupstream = "403"
          /\ ~req'[r].resp.xstale
          /\ req'[r].resp.xcache = "none"
          /\ cache' = cache)]_vars

\* C29: a generic proxy response with status 200 and X-Proxy-Cache: HIT
\* carries a body that upstream returned with a 2xx status.
C29_HitBodyFrom2xx ==
  \A r \in ReqIds :
    (req[r].route \in {"proxy", "proxy001"} /\ req[r].resp.status = 200
       /\ req[r].resp.xcache = "HIT") => Is2xx(req[r].resp.body.st)

\* the entryId values of the rows of a response, in order
EntryIds(rows) == [i \in 1..Len(rows) |-> rows[i].entryId]

\* C30: every 200 response of /api/aggregate/rows, MISS or HIT, is an array
\* of one row per id of the request, with the entryId values in the order
\* the request gave the ids.
C30_RowsInRequestOrder ==
  \A r \in ReqIds :
    (req[r].route = "rows" /\ req[r].pc = "done" /\ req[r].resp.status = 200) =>
      EntryIds(req[r].resp.results) = req[r].ids

\* r is a GET request in the generic proxy's handler (either server)
ProxyGet(r) ==
  /\ req[r].route \in {"proxy", "proxy001"}
  /\ req[r].method = "GET"
\* the steps of a generic proxy request: the cache check on arrival answers
\* (HIT) or dispatches a fetch; the fetch's result resumes the handler, which
\* answers; then the handler has returned
ProxySteps ==
  {<<"none", "done">>, <<"none", "await">>, <<"await", "resume">>,
   <<"resume", "done">>, <<"done", "closed">>}
\* request r is answered in this step
Answers1(r) == req[r].resp = NoResp /\ req'[r].resp # NoResp

====
